---- MODULE Spec2Model ----
(***************************************************************************)
(* Resource graph, reference resolution and orphan analysis of the        *)
(* gitops-validator (internal/parser, internal/context, internal/         *)
(* validators/checks).                                                     *)
(*                                                                         *)
(* Strings that contain "/" (file paths, reference strings, apiVersions,  *)
(* resource keys) are sequences of their "/"-separated segments, so that  *)
(* filepath.Join, filepath.Dir, strings.HasPrefix(.., group+"/") and      *)
(* strings.HasSuffix(key, "/"+name) are computed on the segments.  A       *)
(* resource object (a *ParsedResource) is identified by the index of its  *)
(* document in Menu; 0 is the nil pointer.  Line numbers are not kept.    *)
(***************************************************************************)
EXTENDS Integers, Sequences, FiniteSets, TLC

\* ------------------------------------------------------------------ bounds
MaxResources == 3

MaxEntryPoints == 2

MaxRuns == 2

MaxDepth == 6

MaxStages == 2

MaxFindings == 1

MaxValidators == 2

MaxCalls == 2

\* ------------------------------------------------------- sequence helpers
Range(s) == {s[i] : i \in 1..Len(s)}

Last(s) == s[Len(s)]

Front(s) == SubSeq(s, 1, Len(s) - 1)

\* the sequences of at most n distinct elements of S
RECURSIVE SeqsUpTo(_, _)
SeqsUpTo(S, n) ==
    IF n = 0 THEN {<<>>}
    ELSE LET shorter == SeqsUpTo(S, n - 1)
             longest == {t \in shorter : Len(t) = n - 1}
         IN shorter \cup {Append(p[1], p[2]) :
                             p \in {q \in longest \X S : q[2] \notin Range(q[1])}}

\* -------------------------------------------------------- path/filepath
\* filepath.Clean on a rooted path: "." and the empty segment of a doubled
\* separator are dropped, ".." removes the preceding segment (and is dropped
\* at the root).
RECURSIVE CleanFrom(_, _)
CleanFrom(acc, rest) ==
    IF rest = <<>> THEN acc
    ELSE LET s == Head(rest)
         IN IF s = "." \/ s = "" THEN CleanFrom(acc, Tail(rest))
            ELSE IF s = ".."
                 THEN CleanFrom(IF acc = <<>> THEN acc ELSE Front(acc), Tail(rest))
                 ELSE CleanFrom(Append(acc, s), Tail(rest))

Clean(p) == CleanFrom(<<>>, p)

\* filepath.Join(a, b) = Clean(a + "/" + b)
Join(a, b) == Clean(a \o b)

\* filepath.Dir of a clean rooted file path
Dir(p) == IF p = <<>> THEN p ELSE Front(p)

\* filepath.Base
Base(p) == IF p = <<>> THEN "/" ELSE Last(p)

IsKustomizationFile(filePath) ==
    LET fileName == Base(filePath)
    IN fileName = "kustomization.yaml" \/ fileName = "kustomization.yml"

\* the repository path handed to NewResourceParser / ValidationContext
RepoPath == <<"repo">>

\* ------------------------------------------------------ decoded documents
FluxGroup == "kustomize.toolkit.fluxcd.io"

KustomizeGroup == "kustomize.config.k8s.io"

HelmGroup == "helm.toolkit.fluxcd.io"

SourceGroup == "source.toolkit.fluxcd.io"

\* Content tree of a document, reduced to the fields the extractors read.
\* An absent scalar field is <<>>, a present one is a one-element sequence.
NoContent ==
    [spec_path |-> <<>>, spec_sourceRef_name |-> <<>>,
     resources |-> <<>>, patches |-> <<>>, patchesStrategicMerge |-> <<>>,
     chart_chart |-> <<>>, chart_sourceRef_name |-> <<>>]

Doc(file, apiVersion, kind, name, namespace, content) ==
    [File |-> file, APIVersion |-> apiVersion, Kind |-> kind, Name |-> name,
     Namespace |-> namespace, Content |-> content]

\* The documents a repository of the model may hold, each with its file.
\* Documents of one file appear in the file in Menu order.
Menu ==
    << \* 1: Flux Kustomization a -> ./b.yaml, sourceRef s
       Doc(<<"repo", "a.yaml">>, <<FluxGroup, "v1">>, "Kustomization", "a", "",
           [NoContent EXCEPT !.spec_path = << <<".", "b.yaml">> >>,
                             !.spec_sourceRef_name = << <<"s">> >>]),
       \* 2: Flux Kustomization n1/b -> ./a.yaml (cycle with 1)
       Doc(<<"repo", "b.yaml">>, <<FluxGroup, "v1">>, "Kustomization", "b", "n1",
           [NoContent EXCEPT !.spec_path = << <<".", "a.yaml">> >>]),
       \* 3: ConfigMap a in b.yaml (same key as 1)
       Doc(<<"repo", "b.yaml">>, <<"v1">>, "ConfigMap", "a", "", NoContent),
       \* 4: kustomize Kustomization k in base/
       Doc(<<"repo", "base", "kustomization.yaml">>, <<KustomizeGroup, "v1beta1">>,
           "Kustomization", "k", "",
           [NoContent EXCEPT !.resources = << <<".", "a.yaml">> >>,
                             !.patches = << <<"..", "b.yaml">> >>,
                             !.patchesStrategicMerge = << <<"a.yaml">> >>]),
       \* 5: GitRepository n1/s in base/a.yaml
       Doc(<<"repo", "base", "a.yaml">>, <<SourceGroup, "v1">>, "GitRepository", "s", "n1",
           NoContent),
       \* 6, 7: GitRepository s in namespace n2 and in none
       Doc(<<"repo", "s2.yaml">>, <<SourceGroup, "v1">>, "GitRepository", "s", "n2", NoContent),
       Doc(<<"repo", "s0.yaml">>, <<SourceGroup, "v1">>, "GitRepository", "s", "", NoContent),
       \* 8: HelmRelease h with chart c and sourceRef s
       Doc(<<"repo", "h.yaml">>, <<HelmGroup, "v2beta1">>, "HelmRelease", "h", "",
           [NoContent EXCEPT !.chart_chart = << <<"c">> >>,
                             !.chart_sourceRef_name = << <<"s">> >>]),
       \* 9: Flux Kustomization d -> ./base (a directory)
       Doc(<<"repo", "d.yaml">>, <<FluxGroup, "v1">>, "Kustomization", "d", "",
           [NoContent EXCEPT !.spec_path = << <<".", "base">> >>]),
       \* 10: a kustomization.yaml document without metadata.name
       Doc(<<"repo", "base", "kustomization.yaml">>, <<KustomizeGroup, "v1beta1">>,
           "Kustomization", "", "",
           [NoContent EXCEPT !.resources = << <<"a.yaml">> >>])
    >>

Ids == 1..Len(Menu)

Nil == 0

\* Byte order of the file and directory names used by Menu.
SegOrder ==
    <<"a.yaml", "b.yaml", "base", "d.yaml", "h.yaml", "kustomization.yaml",
      "repo", "s0.yaml", "s2.yaml">>

SegRank(s) == CHOOSE i \in 1..Len(SegOrder) : SegOrder[i] = s

RECURSIVE PathLess(_, _)
PathLess(p, q) ==
    IF p = <<>> THEN q # <<>>
    ELSE IF q = <<>> THEN FALSE
    ELSE IF Head(p) = Head(q) THEN PathLess(Tail(p), Tail(q))
    ELSE SegRank(Head(p)) < SegRank(Head(q))

\* filepath.Walk visits the files in lexical order.
RECURSIVE WalkOrder(_)
WalkOrder(files) ==
    IF files = {} THEN <<>>
    ELSE LET f == CHOOSE x \in files : \A y \in files \ {x} : PathLess(x, y)
         IN <<f>> \o WalkOrder(files \ {f})

RECURSIVE SortIds(_)
SortIds(S) ==
    IF S = {} THEN <<>>
    ELSE LET m == CHOOSE x \in S : \A y \in S : x <= y
         IN <<m>> \o SortIds(S \ {m})

\* The decoded documents of one file of repository rp, in file order.
DocsOfFile(rp, f) == SortIds({i \in rp : Menu[i].File = f})

FilesOf(rp) == {Menu[i].File : i \in rp}

\* ---------------------------------------------------------------- state
VARIABLES
    repo,          \* the file set of the run: the Menu documents on disk
    run,           \* 1 for the first build of the graph, 2 for the rebuild
    walk,          \* files filepath.Walk has still to visit
    Resources,     \* ResourceGraph.Resources: key -> resource
    Files,         \* ResourceGraph.Files: file path -> resources
    ByKind,        \* ResourceGraph.ByKind
    ByAPIVersion,  \* ResourceGraph.ByAPIVersion
    ByType,        \* ResourceGraph.ByType
    Dependencies,  \* ParsedResource.Dependencies of every resource
    ReferencedBy,  \* ParsedResource.ReferencedBy of every resource
    processed,     \* keys the range loop of BuildDependencyGraph has visited
    phase,         \* "build", "checks", "ready", "traverse", "done"
    checked,       \* resources the path checks have been run on
    checkedPaths,  \* the full paths the path checks tested for existence
    entryPoints,   \* argument of FindOrphanedResources
    epIdx,         \* index of the entry point loop of FindOrphanedResources
    visited,       \* the visited map of FindOrphanedResources (its true keys)
    stack,         \* call stack of traverseFromResource
    entered,       \* resources traverseFromResource marked, in order
    orphaned,      \* result of FindOrphanedResources
    firstRun,      \* edges and orphans the first run ended with
    mode,          \* how Validate runs the checks: "pipeline", "sequential", "parallel"
    pipeline,      \* the ValidationPipeline handed to ExecutePipeline
    stageIndex,    \* position of the stage loop of ExecutePipeline
    inStage,       \* executeStage is running the validators of the stage
    pending,       \* validators the running loop has still to call
    stageResults,  \* results of executeValidatorsSequential so far
    allResults,    \* allResults of ExecutePipeline
    pipelineErr,   \* the error ExecutePipeline returns
    stageOutcome,  \* per stage begun: "skipped", "failed", "ran", "aborted"
    ran,           \* the Validate calls made, in order
    results,       \* Validator.results
    wg,            \* the counter of the sync.WaitGroup
    goroutines,    \* the validator goroutines started, each with its position
    resultChan,    \* resultChan
    errorChan,     \* errorChan
    closer,        \* position of the goroutine that waits and closes the channels
    collector,     \* which channel variables the collecting loop has set to nil
    returned,      \* what Validate returned: exit code, error, what it printed
    resolved       \* the ResolvePath calls made, each with what it returned

graphVars == <<Resources, Files, ByKind, ByAPIVersion, ByType>>

edgeVars == <<Dependencies, ReferencedBy, processed>>

checkVars == <<checked, checkedPaths>>

orphanVars == <<entryPoints, epIdx, visited, stack, entered, orphaned>>

pipelineVars == <<pipeline, stageIndex, inStage, pending, stageResults, allResults,
                  pipelineErr, stageOutcome>>

parallelVars == <<wg, goroutines, resultChan, errorChan, closer, collector>>

exitVars == <<returned, resolved>>

runVars == <<mode, pipelineVars, ran, results, parallelVars, exitVars>>

vars == <<repo, run, walk, graphVars, edgeVars, phase, checkVars, orphanVars, firstRun, runVars>>

\* ------------------------------------------------------- resource model
\* ParsedResource.GetResourceKey: "namespace/name" or "name"
GetResourceKey(r) ==
    IF Menu[r].Namespace # "" THEN <<Menu[r].Namespace, Menu[r].Name>>
    ELSE <<Menu[r].Name>>

\* strings.HasPrefix(apiVersion, group + "/")
HasGroupPrefix(apiVersion, group) == Len(apiVersion) >= 2 /\ apiVersion[1] = group

ClassifyResource(r) ==
    LET k == Menu[r].Kind
        av == Menu[r].APIVersion
    IN CASE k = "Kustomization" /\ HasGroupPrefix(av, FluxGroup) -> "flux-kustomization"
         [] k = "HelmRelease" /\ HasGroupPrefix(av, HelmGroup) -> "helm-release"
         [] k = "GitRepository" /\ HasGroupPrefix(av, SourceGroup) -> "flux-source"
         [] k = "HelmRepository" /\ HasGroupPrefix(av, SourceGroup) -> "flux-source"
         [] k \in {"ImageRepository", "ImagePolicy", "ImageUpdateAutomation"}
              /\ HasGroupPrefix(av, "image.toolkit.fluxcd.io") -> "flux-image"
         [] k \in {"Alert", "Provider", "Receiver"}
              /\ HasGroupPrefix(av, "notification.toolkit.fluxcd.io") -> "flux-notification"
         [] OTHER -> "kubernetes-resource"

Reference(type, name, r, referenceType, path, isRelative) ==
    [Type |-> type, Name |-> name, File |-> Menu[r].File,
     ReferenceType |-> referenceType, Path |-> path, IsRelative |-> isRelative]

extractFluxKustomizationReferences(r) ==
    LET c == Menu[r].Content
    IN [i \in 1..Len(c.spec_path) |->
           Reference("flux-kustomization-path", Menu[r].Name, r, "path", c.spec_path[i], FALSE)]
       \o
       [i \in 1..Len(c.spec_sourceRef_name) |->
           Reference("flux-source", c.spec_sourceRef_name[i][1], r, "sourceRef",
                     c.spec_sourceRef_name[i], FALSE)]

extractKubernetesKustomizationReferences(r) ==
    LET c == Menu[r].Content
    IN [i \in 1..Len(c.resources) |->
           Reference("kustomization-resource", Menu[r].Name, r, "resource", c.resources[i], TRUE)]
       \o
       [i \in 1..Len(c.patches) |->
           Reference("kustomization-patch", Menu[r].Name, r, "path", c.patches[i], TRUE)]
       \o
       [i \in 1..Len(c.patchesStrategicMerge) |->
           Reference("kustomization-patch-strategic", Menu[r].Name, r, "path",
                     c.patchesStrategicMerge[i], TRUE)]

extractHelmReleaseReferences(r) ==
    LET c == Menu[r].Content
    IN [i \in 1..Len(c.chart_chart) |->
           Reference("helm-chart", Menu[r].Name, r, "chart", c.chart_chart[i], FALSE)]
       \o
       [i \in 1..Len(c.chart_sourceRef_name) |->
           Reference("helm-source", c.chart_sourceRef_name[i][1], r, "sourceRef",
                     c.chart_sourceRef_name[i], FALSE)]

ExtractReferences(r) ==
    LET t == ClassifyResource(r)
    IN CASE t = "flux-kustomization" -> extractFluxKustomizationReferences(r)
         [] t = "kubernetes-kustomization" -> extractKubernetesKustomizationReferences(r)
         [] t = "helm-release" -> extractHelmReleaseReferences(r)
         [] OTHER -> <<>>

\* ------------------------------------------------------- resource graph
Lookup(m, k) == IF k \in DOMAIN m THEN m[k] ELSE <<>>

\* m[k] = append(m[k], v)
AppendAt(m, k, v) ==
    [x \in (DOMAIN m) \cup {k} |-> IF x = k THEN Append(Lookup(m, k), v) ELSE m[x]]

\* m[k] = v
Store(m, k, v) == [x \in (DOMAIN m) \cup {k} |-> IF x = k THEN v ELSE m[x]]

EmptyMap == [x \in {} |-> <<>>]

NewResourceGraph ==
    [Resources |-> EmptyMap, Files |-> EmptyMap, ByKind |-> EmptyMap,
     ByAPIVersion |-> EmptyMap, ByType |-> EmptyMap]

AddResource(g, r) ==
    [Resources |-> Store(g.Resources, GetResourceKey(r), r),
     Files |-> AppendAt(g.Files, Menu[r].File, r),
     ByKind |-> AppendAt(g.ByKind, Menu[r].Kind, r),
     ByAPIVersion |-> AppendAt(g.ByAPIVersion, Menu[r].APIVersion, r),
     ByType |-> AppendAt(g.ByType, ClassifyResource(r), r)]

\* parseResourceNode keeps a document only if it has apiVersion, kind and name
IsValidResource(r) ==
    ~(Menu[r].APIVersion = <<>> \/ Menu[r].Kind = "" \/ Menu[r].Name = "")

\* ParseFile: the resources of the documents of file f
ParseFile(rp, f) == SelectSeq(DocsOfFile(rp, f), IsValidResource)

RECURSIVE AddAll(_, _)
AddAll(g, rs) == IF rs = <<>> THEN g ELSE AddAll(AddResource(g, Head(rs)), Tail(rs))

\* every resource some index of the graph holds
Loaded == UNION {Range(Files[f]) : f \in DOMAIN Files}

findResourceByPath(path, isRelative, sourceFile, repoPath) ==
    LET fullPath == IF isRelative THEN Join(Dir(sourceFile), path) ELSE Join(repoPath, path)
    IN IF fullPath \in DOMAIN Files /\ Len(Files[fullPath]) > 0
       THEN Files[fullPath][1]
       ELSE Nil

\* strings.HasSuffix(key, "/" + name)
HasNameSuffix(key, name) ==
    /\ Len(key) > Len(name)
    /\ SubSeq(key, Len(key) - Len(name) + 1, Len(key)) = name

\* the lookup that tries the keys ending in "/" + name before the exact key
findResourceByName_suffixFirst(name) ==
    LET matches == {k \in DOMAIN Resources : HasNameSuffix(k, name)}
    IN IF matches # {} THEN {Resources[k] : k \in matches}
       ELSE IF name \in DOMAIN Resources THEN {Resources[name]}
       ELSE {Nil}

\* findResourceByName: the resources it can return.  The fallback ranges over
\* the Resources map and returns the first key with the suffix, so with
\* several such keys the result depends on the iteration order of the map.
findResourceByName(name) ==
    IF name \in DOMAIN Resources THEN {Resources[name]}
    ELSE LET matches == {k \in DOMAIN Resources : HasNameSuffix(k, name)}
         IN IF matches = {} THEN {Nil} ELSE {Resources[k] : k \in matches}

\* FindTargetResource: the resources it can return for ref of sourceResource
FindTargetResource(ref, sourceResource, repoPath) ==
    CASE ref.ReferenceType = "path" ->
            {findResourceByPath(ref.Path, ref.IsRelative, Menu[sourceResource].File, repoPath)}
      [] ref.ReferenceType = "sourceRef" -> findResourceByName(ref.Path)
      [] ref.ReferenceType = "chart" -> {Nil}
      [] OTHER -> {Nil}

\* ------------------------------------------------------------ loading
NoEdges == [r \in Ids |-> <<>>]

\* a nil error
NoError == [stage |-> "", cause |-> ""]

\* config.DefaultConfig: ExitCodes
DefaultExitCodes == [FailOnErrors |-> TRUE, FailOnWarnings |-> FALSE, FailOnInfo |-> FALSE]

\* Validate has not returned
NotReturned == [code |-> 0 - 1, err |-> "", printed |-> <<>>, cfg |-> DefaultExitCodes]

NoRun == [edges |-> NoEdges, orphans |-> {}, entryPoints |-> <<>>]

Init ==
    /\ repo \in {rp \in SUBSET Ids : Cardinality(rp) <= MaxResources}
    /\ run = 1
    /\ walk = WalkOrder(FilesOf(repo))
    /\ Resources = NewResourceGraph.Resources
    /\ Files = NewResourceGraph.Files
    /\ ByKind = NewResourceGraph.ByKind
    /\ ByAPIVersion = NewResourceGraph.ByAPIVersion
    /\ ByType = NewResourceGraph.ByType
    /\ Dependencies = NoEdges
    /\ ReferencedBy = NoEdges
    /\ processed = {}
    /\ phase = "build"
    /\ checked = {}
    /\ checkedPaths = {}
    /\ entryPoints = <<>>
    /\ epIdx = 1
    /\ visited = {}
    /\ stack = <<>>
    /\ entered = <<>>
    /\ orphaned = {}
    /\ firstRun = NoRun
    /\ mode = "none"
    /\ pipeline = <<>>
    /\ stageIndex = 1
    /\ inStage = FALSE
    /\ pending = <<>>
    /\ stageResults = <<>>
    /\ allResults = <<>>
    /\ pipelineErr = NoError
    /\ stageOutcome = <<>>
    /\ ran = <<>>
    /\ results = <<>>
    /\ wg = 0
    /\ goroutines = <<>>
    /\ resultChan = [buf |-> <<>>, closed |-> FALSE, cap |-> 0]
    /\ errorChan = [buf |-> <<>>, closed |-> FALSE, cap |-> 0]
    /\ closer = "none"
    /\ collector = [resultNil |-> FALSE, errorNil |-> FALSE]
    /\ returned = NotReturned
    /\ resolved = {}

\* ParseAllResources, the filepath.Walk callback on the next file: ParseFile
\* and AddResource for each of its resources.
LoadFile ==
    /\ phase = "build"
    /\ walk # <<>>
    /\ LET g == AddAll([Resources |-> Resources, Files |-> Files, ByKind |-> ByKind,
                        ByAPIVersion |-> ByAPIVersion, ByType |-> ByType],
                       ParseFile(repo, Head(walk)))
       IN /\ Resources' = g.Resources
          /\ Files' = g.Files
          /\ ByKind' = g.ByKind
          /\ ByAPIVersion' = g.ByAPIVersion
          /\ ByType' = g.ByType
    /\ walk' = Tail(walk)
    /\ UNCHANGED <<repo, run, edgeVars, phase, checkVars, orphanVars, firstRun, runVars>>

\* Resolution interleaved with loading: BuildDependencyGraph runs while
\* filepath.Walk is still adding resources.
WalkDone_interleaved == TRUE

\* ParseAllResources calls BuildDependencyGraph when filepath.Walk has returned
WalkDone == walk = <<>>

\* the entry BuildDependencyGraph appends to targetResource.ReferencedBy
BackReference(ref, r) ==
    [Type |-> ref.Type, Name |-> Menu[r].Name, File |-> Menu[r].File,
     ReferenceType |-> ref.ReferenceType, Path |-> ref.Path, IsRelative |-> ref.IsRelative]

RECURSIVE AddBackReferences(_, _, _, _, _)
AddBackReferences(rb, refs, targets, r, i) ==
    IF i > Len(refs) THEN rb
    ELSE AddBackReferences(
             IF targets[i] # Nil
             THEN [rb EXCEPT ![targets[i]] = Append(@, BackReference(refs[i], r))]
             ELSE rb,
             refs, targets, r, i + 1)

\* One iteration of the range loop of BuildDependencyGraph, on key k.  Go
\* ranges over the Resources map in an unspecified order.
BuildStep(k) ==
    /\ phase = "build"
    /\ WalkDone
    /\ k \in (DOMAIN Resources) \ processed
    /\ LET r == Resources[k]
           references == ExtractReferences(r)
       IN /\ Dependencies' = [Dependencies EXCEPT ![r] = references]
          /\ \E targets \in [1..Len(references) -> Ids \cup {Nil}] :
                /\ \A i \in 1..Len(references) :
                      targets[i] \in FindTargetResource(references[i], r, RepoPath)
                /\ ReferencedBy' = AddBackReferences(ReferencedBy, references, targets, r, 1)
    /\ processed' = processed \cup {k}
    /\ UNCHANGED <<repo, run, walk, graphVars, phase, checkVars, orphanVars, firstRun, runVars>>

\* ParseAllResources returns the graph
BuildDone ==
    /\ phase = "build"
    /\ WalkDone
    /\ processed = DOMAIN Resources
    /\ phase' = "checks"
    /\ UNCHANGED <<repo, run, walk, graphVars, edgeVars, checkVars, orphanVars, firstRun, runVars>>

\* --------------------------------------------------------- path checks
GetFluxKustomizations == Range(Lookup(ByType, "flux-kustomization"))

GetKubernetesKustomizations ==
    UNION {Range(Files[f]) : f \in {x \in DOMAIN Files : IsKustomizationFile(x)}}

IsPrefix(p, q) == Len(p) <= Len(q) /\ SubSeq(q, 1, Len(p)) = p

\* os.Stat succeeds on the files of the repository and on their directories
PathExists(p) == p = RepoPath \/ \E f \in FilesOf(repo) : IsPrefix(p, f)

\* common.ResolvePath
common_ResolvePath(baseDir, path) == Join(baseDir, path)

\* common.FileExistenceCheck: the path it stats and whether it reports an error
FileExistenceCheck(baseDir, filePath) ==
    LET fullPath == common_ResolvePath(baseDir, filePath)
    IN [fullPath |-> fullPath, err |-> ~PathExists(fullPath)]

PathValidationCheck(baseDir, path) ==
    IF path = <<>> THEN [fullPath |-> <<>>, err |-> TRUE]
    ELSE FileExistenceCheck(baseDir, path)

Tested(check, r, path, res) ==
    [check |-> check, owner |-> r, ref |-> path, fullPath |-> res.fullPath, err |-> res.err]

\* checks.FluxKustomizationPathCheck on Flux Kustomization r
FluxKustomizationPathCheck(r) ==
    /\ phase = "checks"
    /\ r \in GetFluxKustomizations
    /\ <<"flux-kustomization-path", r>> \notin checked
    /\ LET c == Menu[r].Content
           baseDir == RepoPath
       IN checkedPaths' = checkedPaths \cup
              {Tested("flux-kustomization-path", r, c.spec_path[i],
                      PathValidationCheck(baseDir, c.spec_path[i])) : i \in 1..Len(c.spec_path)}
    /\ checked' = checked \cup {<<"flux-kustomization-path", r>>}
    /\ UNCHANGED <<repo, run, walk, graphVars, edgeVars, phase, orphanVars, firstRun, runVars>>

\* checks.KustomizationResourceCheck on the kustomization r
KustomizationResourceCheck(r) ==
    /\ phase = "checks"
    /\ r \in GetKubernetesKustomizations
    /\ <<"kustomization-resource", r>> \notin checked
    /\ LET resources == Menu[r].Content.resources
           baseDir == RepoPath
       IN checkedPaths' = checkedPaths \cup
              {Tested("kustomization-resource", r, resources[i],
                      FileExistenceCheck(baseDir, resources[i])) : i \in 1..Len(resources)}
    /\ checked' = checked \cup {<<"kustomization-resource", r>>}
    /\ UNCHANGED <<repo, run, walk, graphVars, edgeVars, phase, orphanVars, firstRun, runVars>>

ChecksDone ==
    /\ phase = "checks"
    /\ \A r \in GetFluxKustomizations : <<"flux-kustomization-path", r>> \in checked
    /\ \A r \in GetKubernetesKustomizations : <<"kustomization-resource", r>> \in checked
    /\ phase' = "ready"
    /\ UNCHANGED <<repo, run, walk, graphVars, edgeVars, checkVars, orphanVars, firstRun, runVars>>

\* ------------------------------------------------------ orphan analysis
\* FindOrphanedResources(entryPoints) is entered; the entry points are
\* resources of the graph (FindEntryPoints draws them from its indexes).
FindOrphanedResources ==
    /\ phase = "ready"
    /\ \E eps \in SeqsUpTo(Loaded, MaxEntryPoints) :
          /\ run > 1 => eps = firstRun.entryPoints
          /\ entryPoints' = eps
    /\ epIdx' = 1
    /\ visited' = {}
    /\ stack' = <<>>
    /\ entered' = <<>>
    /\ orphaned' = {}
    /\ phase' = "traverse"
    /\ UNCHANGED <<repo, run, walk, graphVars, edgeVars, checkVars, firstRun, runVars>>

\* traverseFromResource without its visited test
AlreadyVisited_never(key, vis) == FALSE

\* traverseFromResource: the visited test that guards entering a resource
AlreadyVisited(key, vis) == key \in vis

\* traverseFromResource(resource, visited) is called with the frames below
\* on the call stack: it returns at once on a visited key, else marks the
\* key and starts on the dependencies.
Call(resource, below) ==
    LET key == GetResourceKey(resource)
    IN IF AlreadyVisited(key, visited)
       THEN /\ stack' = below
            /\ UNCHANGED <<visited, entered>>
       ELSE /\ visited' = visited \cup {key}
            /\ entered' = Append(entered, resource)
            /\ stack' = Append(below, [resource |-> resource, i |-> 1])

\* the loop of FindOrphanedResources over the entry points
TraverseEntryPoint ==
    /\ phase = "traverse"
    /\ stack = <<>>
    /\ epIdx <= Len(entryPoints)
    /\ Len(stack) < MaxDepth
    /\ Call(entryPoints[epIdx], stack)
    /\ epIdx' = epIdx + 1
    /\ UNCHANGED <<repo, run, walk, graphVars, edgeVars, phase, checkVars,
                   entryPoints, orphaned, firstRun, runVars>>

\* the reference kinds traverseFromResource follows
IsTraversed(dep) == dep.ReferenceType = "path" \/ dep.ReferenceType = "resource"

\* the loop of traverseFromResource over resource.Dependencies
TraverseDependency ==
    /\ phase = "traverse"
    /\ stack # <<>>
    /\ Len(stack) < MaxDepth
    /\ LET top == Last(stack)
           deps == Dependencies[top.resource]
       IN /\ top.i <= Len(deps)
          /\ LET dep == deps[top.i]
                 below == Append(Front(stack), [top EXCEPT !.i = top.i + 1])
             IN IF IsTraversed(dep)
                THEN \E targetResource \in FindTargetResource(dep, top.resource, RepoPath) :
                        IF targetResource # Nil
                        THEN Call(targetResource, below)
                        ELSE stack' = below /\ UNCHANGED <<visited, entered>>
                ELSE stack' = below /\ UNCHANGED <<visited, entered>>
    /\ UNCHANGED <<repo, run, walk, graphVars, edgeVars, phase, checkVars,
                   entryPoints, epIdx, orphaned, firstRun, runVars>>

\* traverseFromResource returns when its loop is over
TraverseReturn ==
    /\ phase = "traverse"
    /\ stack # <<>>
    /\ Last(stack).i > Len(Dependencies[Last(stack).resource])
    /\ stack' = Front(stack)
    /\ UNCHANGED <<repo, run, walk, graphVars, edgeVars, phase, checkVars,
                   entryPoints, epIdx, visited, entered, orphaned, firstRun, runVars>>

\* the visited map looked up by resource name instead of resource key
Unvisited_byName(vis) ==
    {Resources[k] : k \in {x \in DOMAIN Resources : ~(<<Menu[Resources[x]].Name>> \in vis)}}

\* the unvisited resources FindOrphanedResources returns
Unvisited(vis) ==
    {Resources[k] : k \in {x \in DOMAIN Resources : ~(GetResourceKey(Resources[x]) \in vis)}}

CollectOrphans ==
    /\ phase = "traverse"
    /\ stack = <<>>
    /\ epIdx > Len(entryPoints)
    /\ orphaned' = Unvisited(visited)
    /\ phase' = "done"
    /\ UNCHANGED <<repo, run, walk, graphVars, edgeVars, checkVars,
                   entryPoints, epIdx, visited, stack, entered, firstRun, runVars>>

\* ------------------------------------------------------------ second run
\* the resolved edges of the graph: the ReferencedBy set of every resource
EdgeSets == [r \in Ids |-> Range(ReferencedBy[r])]

\* The same unchanged file set is parsed again into a new graph.
Rebuild ==
    /\ phase = "done"
    /\ run < MaxRuns
    /\ firstRun' = IF run = 1
                   THEN [edges |-> EdgeSets, orphans |-> orphaned, entryPoints |-> entryPoints]
                   ELSE firstRun
    /\ run' = run + 1
    /\ walk' = WalkOrder(FilesOf(repo))
    /\ Resources' = NewResourceGraph.Resources
    /\ Files' = NewResourceGraph.Files
    /\ ByKind' = NewResourceGraph.ByKind
    /\ ByAPIVersion' = NewResourceGraph.ByAPIVersion
    /\ ByType' = NewResourceGraph.ByType
    /\ Dependencies' = NoEdges
    /\ ReferencedBy' = NoEdges
    /\ processed' = {}
    /\ phase' = "build"
    /\ checked' = {}
    /\ checkedPaths' = {}
    /\ entryPoints' = <<>>
    /\ epIdx' = 1
    /\ visited' = {}
    /\ stack' = <<>>
    /\ entered' = <<>>
    /\ orphaned' = {}
    /\ UNCHANGED <<repo, runVars>>

\* ------------------------------------------------------ running the checks
\* the names of the validator registry of runValidationWithPipeline
Registry == {"flux-kustomization", "deprecated-api"}

\* a validator name that is in no registry
Unregistered == "custom-check"

\* types.ValidationResult; Stage and n tell the findings of one Validate call
\* apart (in the program: File, Resource and the text of Message)
Finding(type, severity, message, stage, n) ==
    [Type |-> type, Severity |-> severity, Message |-> message, Stage |-> stage, n |-> n]

\* the severities Validate and the aggregator tell apart
Severities == {"error", "warning", "info"}

\* what a call validator.Validate(ctx) does: it returns n findings of some
\* severity, returns an error, panics, or never returns
Outcomes ==
    {[kind |-> "ok", n |-> 0, severity |-> ""]}
        \cup {[kind |-> "ok", n |-> k, severity |-> s] : k \in 1..MaxFindings, s \in Severities}
        \cup {[kind |-> "error", n |-> 0, severity |-> ""],
              [kind |-> "panic", n |-> 0, severity |-> ""],
              [kind |-> "hang", n |-> 0, severity |-> ""]}

\* the severities a check gives its findings: deprecated-api takes them from
\* its table and from the configured custom APIs, orphaned-resource warns,
\* the other checks report errors
SeveritiesOf(name) ==
    IF name = "deprecated-api" THEN Severities
    ELSE IF name = "orphaned-resource" THEN {"warning"}
    ELSE {"error"}

\* what a call of the check of that name can do
OutcomesOf(name) ==
    {out \in Outcomes : out.kind = "ok" /\ out.n > 0 => out.severity \in SeveritiesOf(name)}

\* the findings a validator returns
ValidatorFindings(name, stage, n, severity) ==
    [i \in 1..n |-> Finding(name, severity, name, stage, i)]

\* the graph every check is handed in ctx.Graph
ContextGraph ==
    [Resources |-> Resources, Files |-> Files, ByKind |-> ByKind,
     ByAPIVersion |-> ByAPIVersion, ByType |-> ByType,
     Dependencies |-> Dependencies, ReferencedBy |-> ReferencedBy]

\* a check that rewrites the back-edges it reads
GraphAfterValidate_rewritten(g) == [g EXCEPT !.ReferencedBy = NoEdges, !.ByType = EmptyMap]

\* the graph after validator.Validate(ctx): the validators only read it
GraphAfterValidate(g) == g

SetGraph(g) ==
    /\ Resources' = g.Resources
    /\ Files' = g.Files
    /\ ByKind' = g.ByKind
    /\ ByAPIVersion' = g.ByAPIVersion
    /\ ByType' = g.ByType
    /\ Dependencies' = g.Dependencies
    /\ ReferencedBy' = g.ReferencedBy

\* ------------------------------------------------------- stage conditions
\* A condition string is the sequence of its words, blanks and characters.
strings_HasPrefix(s, prefix) == IsPrefix(prefix, s)

strings_TrimPrefix(s, prefix) ==
    IF strings_HasPrefix(s, prefix) THEN SubSeq(s, Len(prefix) + 1, Len(s)) ELSE s

RECURSIVE strings_TrimSpace(_)
strings_TrimSpace(s) ==
    IF s = <<>> THEN s
    ELSE IF Head(s) = " " THEN strings_TrimSpace(Tail(s))
    ELSE IF Last(s) = " " THEN strings_TrimSpace(Front(s))
    ELSE s

Digits == <<"0", "1", "2", "3", "4", "5", "6", "7", "8", "9">>

IsDigit(char) == \E d \in 1..Len(Digits) : Digits[d] = char

DigitValue(char) == (CHOOSE d \in 1..Len(Digits) : Digits[d] = char) - 1

\* parseInt: the digits of s, every other character ignored
RECURSIVE parseIntFrom(_, _)
parseIntFrom(result, s) ==
    IF s = <<>> THEN result
    ELSE parseIntFrom(IF IsDigit(Head(s)) THEN result * 10 + DigitValue(Head(s)) ELSE result,
                      Tail(s))

parseInt(s) == parseIntFrom(0, s)

evaluateCondition(condition, nResources, nFiles) ==
    IF strings_HasPrefix(condition, <<"resource_count", " ", ">">>)
    THEN nResources >
            parseInt(strings_TrimSpace(strings_TrimPrefix(condition, <<"resource_count", " ", ">">>)))
    ELSE IF strings_HasPrefix(condition, <<"resource_count", " ", "<">>)
    THEN nResources <
            parseInt(strings_TrimSpace(strings_TrimPrefix(condition, <<"resource_count", " ", "<">>)))
    ELSE IF strings_HasPrefix(condition, <<"file_count", " ", ">">>)
    THEN nFiles >
            parseInt(strings_TrimSpace(strings_TrimPrefix(condition, <<"file_count", " ", ">">>)))
    ELSE TRUE

\* the decimal text of an integer
RECURSIVE Decimal(_)
Decimal(n) ==
    IF n < 0 THEN <<"-">> \o Decimal(0 - n)
    ELSE IF n < 10 THEN <<Digits[n + 1]>>
    ELSE Decimal(n \div 10) \o <<Digits[(n % 10) + 1]>>

\* the condition text "<subject> <op> <threshold>"
Cond(subject, op, threshold) == <<subject, " ", op, " ">> \o threshold

Subjects == {"resource_count", "file_count"}

Operators == {">", "<"}

Thresholds == {0 - 1, 0, 1, 2, 10}

WellFormedConditions ==
    {Cond(s, o, Decimal(n)) : s \in Subjects, o \in Operators, n \in Thresholds}

MalformedConditions ==
    { Cond("resource_count", ">", <<"x">>),
      Cond("resource_count", "<", <<"x">>),
      Cond("file_count", ">", <<"x">>),
      Cond("file_count", "<", <<"x">>),
      <<"resource_count", " ", ">", "=", " ", "1">>,
      <<"resource_count", " ", "<", "=", " ", "1">>,
      <<"resources", " ", ">", " ", "1">>,
      <<"resource_count">> }

\* ------------------------------------------------------------- pipelines
\* PipelineStage
Stage(name, validators, parallel, required, condition) ==
    [Name |-> name, Validators |-> validators, Parallel |-> parallel,
     Required |-> required, Condition |-> condition]

\* the stages a pipeline is made of
StageMenu ==
    { Stage("s1", <<"flux-kustomization", "deprecated-api">>, FALSE, TRUE, <<>>),
      Stage("s2", <<"deprecated-api", "flux-kustomization">>, TRUE, FALSE, <<>>),
      Stage("s3", <<"flux-kustomization", Unregistered>>, FALSE, TRUE, <<>>),
      Stage("s4", <<"deprecated-api", Unregistered>>, FALSE, FALSE, <<>>),
      Stage("s5", <<>>, FALSE, TRUE, <<>>),
      Stage("s6", <<"flux-kustomization">>, FALSE, TRUE, Cond("resource_count", ">", <<"1">>)),
      Stage("s7", <<Unregistered>>, FALSE, TRUE, Cond("file_count", ">", <<"1">>)) }

\* a stage with one registered validator that runs under a condition
ConditionStage(c) == Stage("c", <<"flux-kustomization">>, FALSE, FALSE, c)

Pipelines ==
    SeqsUpTo(StageMenu, MaxStages)
        \cup {<<ConditionStage(c)>> : c \in WellFormedConditions \cup MalformedConditions}

\* the error of executeStage: the first validator name that is not
\* registered, else the empty validator list, else nil
RECURSIVE FirstMissing(_)
FirstMissing(names) ==
    IF names = <<>> THEN ""
    ELSE IF Head(names) \notin Registry THEN Head(names)
    ELSE FirstMissing(Tail(names))

\* the stage's names are not looked up before its validators are called
StageError_unchecked(stage) ==
    IF stage.Validators = <<>>
    THEN [stage |-> stage.Name, cause |-> "no validators found"]
    ELSE NoError

StageError(stage) ==
    IF FirstMissing(stage.Validators) # ""
    THEN [stage |-> stage.Name, cause |-> "validator not found"]
    ELSE IF stage.Validators = <<>>
    THEN [stage |-> stage.Name, cause |-> "no validators found"]
    ELSE NoError

\* the stage loop taken from the last stage to the first
CurrentStage_reversed == pipeline[Len(pipeline) + 1 - stageIndex]

\* the stage of the current iteration of `for stageIndex, stage := range pipeline.Stages`
CurrentStage == pipeline[stageIndex]

\* a failed stage that never stops the pipeline
AbortsPipeline_never(stage, err) == FALSE

\* every failed stage stops the pipeline
AbortsPipeline_always(stage, err) == err # NoError

\* ExecutePipeline returns the error of a failed stage when the stage is required
AbortsPipeline(stage, err) == err # NoError /\ stage.Required

\* Validate: v.usePipeline, runValidationWithPipeline calls ExecutePipeline
ExecutePipeline(p) ==
    /\ phase = "checks"
    /\ checked = {}
    /\ mode = "none"
    /\ mode' = "pipeline"
    /\ phase' = "validate"
    /\ pipeline' = p
    /\ stageIndex' = 1
    /\ allResults' = <<>>
    /\ UNCHANGED <<repo, run, walk, graphVars, edgeVars, checkVars, orphanVars, firstRun, exitVars, parallelVars,
                   inStage, pending, stageResults, pipelineErr, stageOutcome, ran, results>>

\* executeStage up to the call of its validators, and what ExecutePipeline
\* does when it returns before running any
executeStage ==
    /\ phase = "validate"
    /\ mode = "pipeline"
    /\ ~inStage
    /\ pipelineErr = NoError
    /\ stageIndex <= Len(pipeline)
    /\ LET stage == CurrentStage
           err == StageError(stage)
       IN IF stage.Condition # <<>>
             /\ ~evaluateCondition(stage.Condition, Cardinality(DOMAIN Resources),
                                   Cardinality(DOMAIN Files))
          THEN /\ stageOutcome' = Append(stageOutcome, "skipped")
               /\ stageIndex' = stageIndex + 1
               /\ UNCHANGED <<inStage, pending, stageResults, allResults, pipelineErr>>
          ELSE IF err # NoError
          THEN IF AbortsPipeline(stage, err)
               THEN /\ pipelineErr' = err
                    /\ stageOutcome' = Append(stageOutcome, "aborted")
                    /\ UNCHANGED <<stageIndex, inStage, pending, stageResults, allResults>>
               ELSE /\ allResults' = Append(allResults,
                                        Finding("pipeline-stage-error", "error",
                                                stage.Name, stage.Name, 1))
                    /\ stageOutcome' = Append(stageOutcome, "failed")
                    /\ stageIndex' = stageIndex + 1
                    /\ UNCHANGED <<inStage, pending, stageResults, pipelineErr>>
          ELSE /\ inStage' = TRUE
               /\ pending' = stage.Validators
               /\ stageResults' = <<>>
               /\ UNCHANGED <<stageIndex, allResults, pipelineErr, stageOutcome>>
    /\ UNCHANGED <<repo, run, walk, graphVars, edgeVars, phase, checkVars, orphanVars,
                   firstRun, exitVars, parallelVars, mode, pipeline, ran, results>>

\* one iteration of the loop of executeValidatorsSequential (which
\* executeValidatorsParallel calls too)
executeValidatorsSequential ==
    /\ phase = "validate"
    /\ mode = "pipeline"
    /\ inStage
    /\ pending # <<>>
    /\ \E out \in OutcomesOf(Head(pending)) :
          LET name == Head(pending)
              stage == CurrentStage.Name
          IN /\ ran' = Append(ran, [stage |-> stage, validator |-> name, kind |-> out.kind,
                                  n |-> out.n, severity |-> out.severity])
             /\ pending' = Tail(pending)
             /\ SetGraph(GraphAfterValidate(ContextGraph))
             /\ IF out.kind = "panic"
                THEN phase' = "crashed" /\ UNCHANGED stageResults
                ELSE IF out.kind = "hang"
                THEN phase' = "hung" /\ UNCHANGED stageResults
                ELSE /\ UNCHANGED phase
                     /\ stageResults' =
                           IF out.kind = "error"
                           THEN Append(stageResults,
                                       Finding("validator-error", "error", name, stage, 1))
                           ELSE stageResults \o ValidatorFindings(name, stage, out.n,
                                                                 out.severity)
    /\ UNCHANGED <<repo, run, walk, processed, checkVars, orphanVars, firstRun, exitVars, parallelVars, mode,
                   pipeline, stageIndex, inStage, allResults, pipelineErr, stageOutcome,
                   results>>

\* executeStage returns the results of its validators to ExecutePipeline
StageReturns ==
    /\ phase = "validate"
    /\ mode = "pipeline"
    /\ inStage
    /\ pending = <<>>
    /\ allResults' = allResults \o stageResults
    /\ stageOutcome' = Append(stageOutcome, "ran")
    /\ stageIndex' = stageIndex + 1
    /\ inStage' = FALSE
    /\ stageResults' = <<>>
    /\ UNCHANGED <<repo, run, walk, graphVars, edgeVars, phase, checkVars, orphanVars,
                   firstRun, exitVars, parallelVars, mode, pipeline, pending, pipelineErr, ran, results>>

\* ExecutePipeline returns to runValidationWithPipeline
PipelineReturns ==
    /\ phase = "validate"
    /\ mode = "pipeline"
    /\ ~inStage
    /\ pipelineErr # NoError \/ stageIndex > Len(pipeline)
    /\ results' =
          IF pipelineErr # NoError
          THEN Append(results, Finding("pipeline-error", "error", pipelineErr.stage, "", 1))
          ELSE results \o allResults
    /\ phase' = "finished"
    /\ UNCHANGED <<repo, run, walk, graphVars, edgeVars, checkVars, orphanVars, firstRun, exitVars, parallelVars,
                   mode, pipelineVars, ran>>

\* ------------------------------------------- top-level runs of the checks
\* the validators Validate builds its validatorList from, in its order
AllValidators ==
    <<"flux-kustomization", "kubernetes-kustomization", "kustomization-version-consistency",
      "orphaned-resource", "deprecated-api", "flux-postbuild-variables">>

ValidatorList == SubSeq(AllValidators, 1, MaxValidators)

\* the synthetic finding the runners make of a validator's error
ValidatorError(name) == Finding("validator-error", "error", name, "", 1)

\* what a Validate call with the given outcome hands back to the runner
Returned(name, out) ==
    IF out.kind = "error" THEN <<ValidatorError(name)>> ELSE ValidatorFindings(name, "", out.n, out.severity)

\* the results of a check put before the results already collected
AppendResults_prepended(list, new) == new \o list

\* v.results = append(v.results, results...)
AppendResults(list, new) == list \o new

\* Validate: neither pipeline nor parallel, runValidatorsSequential is called
runValidatorsSequential ==
    /\ phase = "checks"
    /\ checked = {}
    /\ mode = "none"
    /\ mode' = "sequential"
    /\ phase' = "validate"
    /\ pending' = ValidatorList
    /\ UNCHANGED <<repo, run, walk, graphVars, edgeVars, checkVars, orphanVars, firstRun, exitVars,
                   pipeline, stageIndex, inStage, stageResults, allResults, pipelineErr,
                   stageOutcome, ran, results, parallelVars>>

\* one iteration of the loop of runValidatorsSequential
SequentialValidate ==
    /\ phase = "validate"
    /\ mode = "sequential"
    /\ pending # <<>>
    /\ \E out \in OutcomesOf(Head(pending)) :
          LET name == Head(pending)
          IN /\ ran' = Append(ran, [stage |-> "", validator |-> name, kind |-> out.kind,
                                  n |-> out.n, severity |-> out.severity])
             /\ pending' = Tail(pending)
             /\ SetGraph(GraphAfterValidate(ContextGraph))
             /\ IF out.kind = "panic"
                THEN phase' = "crashed" /\ UNCHANGED results
                ELSE IF out.kind = "hang"
                THEN phase' = "hung" /\ UNCHANGED results
                ELSE UNCHANGED phase /\ results' = AppendResults(results, Returned(name, out))
    /\ UNCHANGED <<repo, run, walk, processed, checkVars, orphanVars, firstRun, exitVars, mode,
                   pipeline, stageIndex, inStage, stageResults, allResults, pipelineErr,
                   stageOutcome, parallelVars>>

SequentialReturns ==
    /\ phase = "validate"
    /\ mode = "sequential"
    /\ pending = <<>>
    /\ phase' = "finished"
    /\ UNCHANGED <<repo, run, walk, graphVars, edgeVars, checkVars, orphanVars, firstRun,
                   runVars>>

\* a channel without a buffer in place of the buffered one
MakeChan_unbuffered(capacity) == [buf |-> <<>>, closed |-> FALSE, cap |-> 0]

\* a channel of the given capacity
MakeChan(capacity) == [buf |-> <<>>, closed |-> FALSE, cap |-> capacity]

\* runValidatorsParallel(validatorList): both channels are made with
\* capacity len(validatorList)
runValidatorsParallelOn(validatorList) ==
    /\ phase = "checks"
    /\ checked = {}
    /\ mode = "none"
    /\ mode' = "parallel"
    /\ phase' = "validate"
    /\ pending' = validatorList
    /\ resultChan' = MakeChan(Len(validatorList))
    /\ errorChan' = MakeChan(Len(validatorList))
    /\ UNCHANGED <<repo, run, walk, graphVars, edgeVars, checkVars, orphanVars, firstRun, exitVars,
                   pipeline, stageIndex, inStage, stageResults, allResults, pipelineErr,
                   stageOutcome, ran, results, wg, goroutines, closer, collector>>

\* Validate: v.parallel, runValidatorsParallel(v.validators)
runValidatorsParallel == runValidatorsParallelOn(ValidatorList)

\* one iteration of the loop that starts the goroutines: wg.Add(1), go func
StartValidator ==
    /\ phase = "validate"
    /\ mode = "parallel"
    /\ pending # <<>>
    /\ wg' = wg + 1
    /\ goroutines' = Append(goroutines, [validator |-> Head(pending), pc |-> "validate"])
    /\ pending' = Tail(pending)
    /\ UNCHANGED <<repo, run, walk, graphVars, edgeVars, phase, checkVars, orphanVars,
                   firstRun, exitVars, mode, pipeline, stageIndex, inStage, stageResults, allResults,
                   pipelineErr, stageOutcome, ran, results, resultChan, errorChan, closer,
                   collector>>

\* a validator goroutine: validator.Validate and the send of what it returned
GoValidate(i) ==
    /\ phase = "validate"
    /\ mode = "parallel"
    /\ goroutines[i].pc = "validate"
    /\ \E out \in OutcomesOf(goroutines[i].validator) :
          LET name == goroutines[i].validator
          IN /\ ran' = Append(ran, [stage |-> "", validator |-> name, kind |-> out.kind,
                                  n |-> out.n, severity |-> out.severity])
             /\ SetGraph(GraphAfterValidate(ContextGraph))
             /\ IF out.kind = "panic"
                THEN /\ phase' = "crashed"
                     /\ UNCHANGED <<resultChan, errorChan, goroutines>>
                ELSE IF out.kind = "hang"
                THEN /\ goroutines' = [goroutines EXCEPT ![i].pc = "hung"]
                     /\ UNCHANGED <<phase, resultChan, errorChan>>
                ELSE /\ UNCHANGED phase
                     /\ goroutines' = [goroutines EXCEPT ![i].pc = "deferred"]
                     /\ IF out.kind = "error"
                        THEN /\ Len(errorChan.buf) < errorChan.cap
                             /\ errorChan' = [errorChan EXCEPT !.buf = Append(@, name)]
                             /\ UNCHANGED resultChan
                        ELSE /\ Len(resultChan.buf) < resultChan.cap
                             /\ resultChan' =
                                   [resultChan EXCEPT !.buf = Append(@, Returned(name, out))]
                             /\ UNCHANGED errorChan
    /\ UNCHANGED <<repo, run, walk, processed, checkVars, orphanVars, firstRun, exitVars, mode,
                   pipelineVars, results, wg, closer, collector>>

\* the deferred wg.Done() of a validator goroutine
GoDone(i) ==
    /\ phase = "validate"
    /\ mode = "parallel"
    /\ goroutines[i].pc = "deferred"
    /\ goroutines' = [goroutines EXCEPT ![i].pc = "done"]
    /\ wg' = wg - 1
    /\ UNCHANGED <<repo, run, walk, graphVars, edgeVars, phase, checkVars, orphanVars,
                   firstRun, exitVars, mode, pipelineVars, ran, results, resultChan, errorChan, closer,
                   collector>>

\* the main goroutine starts the goroutine that waits and closes
StartCloser ==
    /\ phase = "validate"
    /\ mode = "parallel"
    /\ pending = <<>>
    /\ closer = "none"
    /\ closer' = "wait"
    /\ UNCHANGED <<repo, run, walk, graphVars, edgeVars, phase, checkVars, orphanVars,
                   firstRun, exitVars, mode, pipelineVars, ran, results, wg, goroutines, resultChan,
                   errorChan, collector>>

\* wg.Wait() returning before the counter is zero
WaitReturns_early(counter) == TRUE

\* wg.Wait() returns when the counter is zero
WaitReturns(counter) == counter = 0

\* the closing goroutine: wg.Wait(), close(resultChan)
CloseResultChan ==
    /\ phase = "validate"
    /\ mode = "parallel"
    /\ closer = "wait"
    /\ WaitReturns(wg)
    /\ resultChan' = [resultChan EXCEPT !.closed = TRUE]
    /\ closer' = "closeError"
    /\ UNCHANGED <<repo, run, walk, graphVars, edgeVars, phase, checkVars, orphanVars,
                   firstRun, exitVars, mode, pipelineVars, ran, results, wg, goroutines, errorChan,
                   collector>>

\* the closing goroutine: close(errorChan)
CloseErrorChan ==
    /\ phase = "validate"
    /\ mode = "parallel"
    /\ closer = "closeError"
    /\ errorChan' = [errorChan EXCEPT !.closed = TRUE]
    /\ closer' = "done"
    /\ UNCHANGED <<repo, run, walk, graphVars, edgeVars, phase, checkVars, orphanVars,
                   firstRun, exitVars, mode, pipelineVars, ran, results, wg, goroutines, resultChan,
                   collector>>

\* the collecting loop, case results, ok := <-resultChan
ReceiveResults ==
    /\ phase = "validate"
    /\ mode = "parallel"
    /\ closer # "none"
    /\ ~collector.resultNil
    /\ IF resultChan.buf # <<>>
       THEN /\ results' = results \o Head(resultChan.buf)
            /\ resultChan' = [resultChan EXCEPT !.buf = Tail(@)]
            /\ UNCHANGED collector
       ELSE /\ resultChan.closed
            /\ collector' = [collector EXCEPT !.resultNil = TRUE]
            /\ UNCHANGED <<results, resultChan>>
    /\ UNCHANGED <<repo, run, walk, graphVars, edgeVars, phase, checkVars, orphanVars,
                   firstRun, exitVars, mode, pipelineVars, ran, wg, goroutines, errorChan, closer>>

\* the collecting loop, case err, ok := <-errorChan
ReceiveError ==
    /\ phase = "validate"
    /\ mode = "parallel"
    /\ closer # "none"
    /\ ~collector.errorNil
    /\ IF errorChan.buf # <<>>
       THEN /\ results' = Append(results, ValidatorError(Head(errorChan.buf)))
            /\ errorChan' = [errorChan EXCEPT !.buf = Tail(@)]
            /\ UNCHANGED collector
       ELSE /\ errorChan.closed
            /\ collector' = [collector EXCEPT !.errorNil = TRUE]
            /\ UNCHANGED <<results, errorChan>>
    /\ UNCHANGED <<repo, run, walk, graphVars, edgeVars, phase, checkVars, orphanVars,
                   firstRun, exitVars, mode, pipelineVars, ran, wg, goroutines, resultChan, closer>>

\* the collecting loop ends when both channels are nil
ParallelReturns ==
    /\ phase = "validate"
    /\ mode = "parallel"
    /\ collector.resultNil
    /\ collector.errorNil
    /\ phase' = "finished"
    /\ UNCHANGED <<repo, run, walk, graphVars, edgeVars, checkVars, orphanVars, firstRun,
                   runVars>>

\* ------------------------------------------------------- path resolution
\* A reference string is the sequence of the pieces its "/" separate: "/x"
\* is <<"", "x">> and "http://h/x" is <<"http:", "", "h", "x">>.
\* strings.HasPrefix(path, "http://") || strings.HasPrefix(path, "https://")
IsRemoteURL(path) == Len(path) >= 3 /\ path[1] \in {"http:", "https:"} /\ path[2] = ""

\* strings.HasPrefix(path, "/")
HasSeparatorPrefix(path) == Len(path) >= 2 /\ path[1] = ""

\* strings.TrimPrefix(path, "./")
TrimDotSlash(path) == IF Len(path) >= 2 /\ path[1] = "." THEN Tail(path) ELSE path

\* validators.NormalizePath
NormalizePath(path) ==
    IF IsRemoteURL(path) THEN [path |-> <<>>, shouldProcess |-> FALSE]
    ELSE IF HasSeparatorPrefix(path) THEN [path |-> path, shouldProcess |-> TRUE]
    ELSE [path |-> TrimDotSlash(path), shouldProcess |-> TRUE]

\* validators.ResolvePath
validators_ResolvePath(baseDir, path) ==
    LET normalized == NormalizePath(path)
    IN IF ~normalized.shouldProcess THEN [fullPath |-> <<>>, shouldResolve |-> FALSE]
       ELSE [fullPath |-> Join(baseDir, normalized.path), shouldResolve |-> TRUE]

\* the implementations of ResolvePath the validators and the checks call
ResolveImplementations == {"validators.ResolvePath", "common.ResolvePath"}

ResolvePath(impl, baseDir, path) ==
    IF impl = "validators.ResolvePath" THEN validators_ResolvePath(baseDir, path)
    ELSE [fullPath |-> common_ResolvePath(baseDir, path), shouldResolve |-> TRUE]

\* the base directories the callers pass: the repository, a directory of it
BaseDirs == {RepoPath, <<"repo", "base">>}

\* the reference strings of the calls
ReferencePaths ==
    { <<"http:", "", "h", "a.yaml">>, <<"https:", "", "h", "a.yaml">>,
      <<"", "repo", "a.yaml">>, <<"", "a.yaml">>,
      <<".", "a.yaml">>, <<"a.yaml">>, <<".", ".", "a.yaml">>, <<"..", "b.yaml">>,
      <<"base", ".", "a.yaml">> }

\* a caller resolves the reference path against baseDir
ResolveCall(impl, baseDir, path) ==
    /\ Cardinality(resolved) < MaxCalls
    /\ resolved' = resolved \cup
          {[impl |-> impl, baseDir |-> baseDir, path |-> path,
            result |-> ResolvePath(impl, baseDir, path)]}
    /\ UNCHANGED <<repo, run, walk, graphVars, edgeVars, phase, checkVars, orphanVars,
                   firstRun, mode, pipelineVars, ran, results, parallelVars, returned>>

\* ------------------------------------------------------- Validate returns
\* the values of config.GitOpsValidator.ExitCodes
ExitCodesConfigs == [FailOnErrors : BOOLEAN, FailOnWarnings : BOOLEAN, FailOnInfo : BOOLEAN]

\* Validate: the loop over v.results that sets hasErrors, hasWarnings, hasInfo
HasSeverity(list, severity) == \E i \in 1..Len(list) : list[i].Severity = severity

\* the exit code with the warnings looked at before the errors
ExitCode_warningsFirst(list, cfg) ==
    IF HasSeverity(list, "warning") /\ cfg.FailOnWarnings THEN 2
    ELSE IF HasSeverity(list, "error") /\ cfg.FailOnErrors THEN 1
    ELSE IF HasSeverity(list, "info") /\ cfg.FailOnInfo THEN 3
    ELSE 0

\* Validate: the exit code of the findings under the configured exit codes
ExitCode(list, cfg) ==
    IF HasSeverity(list, "error") /\ cfg.FailOnErrors THEN 1
    ELSE IF HasSeverity(list, "warning") /\ cfg.FailOnWarnings THEN 2
    ELSE IF HasSeverity(list, "info") /\ cfg.FailOnInfo THEN 3
    ELSE 0

\* Validate returns early with an error: exit code 1, nothing printed
ReturnError(cause, cfg) == [code |-> 1, err |-> cause, printed |-> <<>>, cfg |-> cfg]

\* Validate: os.Stat(v.repoPath) says the repository path does not exist
RepositoryMissing ==
    /\ phase = "build"
    /\ repo = {}
    /\ processed = {}
    /\ \E cfg \in ExitCodesConfigs :
          returned' = ReturnError("repository path does not exist", cfg)
    /\ phase' = "returned"
    /\ UNCHANGED <<repo, run, walk, graphVars, edgeVars, checkVars, orphanVars, firstRun,
                   mode, pipelineVars, ran, results, parallelVars, resolved>>

\* Validate: ParseAllResources fails, filepath.Walk having handed its
\* callback the error of a directory or file it could not read
WalkFails ==
    /\ phase = "build"
    /\ processed = {}
    /\ \E cfg \in ExitCodesConfigs :
          returned' = ReturnError("failed to parse resources", cfg)
    /\ phase' = "returned"
    /\ UNCHANGED <<repo, run, walk, graphVars, edgeVars, checkVars, orphanVars, firstRun,
                   mode, pipelineVars, ran, results, parallelVars, resolved>>

\* Validate after the checks have run: printResults, then the exit code of
\* v.results under the configured exit codes
ValidateReturns ==
    /\ phase = "finished"
    /\ \E cfg \in ExitCodesConfigs :
          returned' = [code |-> ExitCode(results, cfg), err |-> "", printed |-> results,
                       cfg |-> cfg]
    /\ phase' = "returned"
    /\ UNCHANGED <<repo, run, walk, graphVars, edgeVars, checkVars, orphanVars, firstRun,
                   mode, pipelineVars, ran, results, parallelVars, resolved>>

\* -------------------------------------------------------- specification
Next ==
    \/ LoadFile
    \/ \E k \in DOMAIN Resources : BuildStep(k)
    \/ BuildDone
    \/ \E r \in Ids : FluxKustomizationPathCheck(r)
    \/ \E r \in Ids : KustomizationResourceCheck(r)
    \/ ChecksDone
    \/ FindOrphanedResources
    \/ TraverseEntryPoint
    \/ TraverseDependency
    \/ TraverseReturn
    \/ CollectOrphans

Spec == Init /\ [][Next]_vars

\* a validation run followed by further runs on the same file set
NextRebuild == Next \/ Rebuild

SpecRebuild == Init /\ [][NextRebuild]_vars

\* The run is one sequential program: it takes its next step whenever it has one.
FairSpec == Spec /\ WF_vars(Next)

\* the file sets of the runs of the checks: an empty repository, two Flux
\* Kustomizations, and these with a kustomization.yaml
RunRepos == {{}, {1, 2}, {1, 2, 4}}

InitRun == Init /\ repo \in RunRepos

\* Validate: the graph is built, then the checks run
NextRun ==
    \/ Next
    \/ \E p \in Pipelines : ExecutePipeline(p)
    \/ executeStage
    \/ executeValidatorsSequential
    \/ StageReturns
    \/ PipelineReturns
    \/ runValidatorsSequential
    \/ SequentialValidate
    \/ SequentialReturns
    \/ runValidatorsParallel
    \/ StartValidator
    \/ \E i \in 1..Len(goroutines) : GoValidate(i)
    \/ \E i \in 1..Len(goroutines) : GoDone(i)
    \/ StartCloser
    \/ CloseResultChan
    \/ CloseErrorChan
    \/ ReceiveResults
    \/ ReceiveError
    \/ ParallelReturns

SpecRun == InitRun /\ [][NextRun]_vars

\* Validate from its first line to its return
NextValidate ==
    \/ NextRun
    \/ RepositoryMissing
    \/ WalkFails
    \/ ValidateReturns

SpecValidate == InitRun /\ [][NextValidate]_vars

\* the lists runValidatorsParallel is called on: none, one, ... checks
ValidatorLists == {SubSeq(AllValidators, 1, n) : n \in 0..MaxValidators}

\* runValidatorsParallel on a list of any length
NextParallel ==
    \/ Next
    \/ \E validatorList \in ValidatorLists : runValidatorsParallelOn(validatorList)
    \/ StartValidator
    \/ \E i \in 1..Len(goroutines) : GoValidate(i)
    \/ \E i \in 1..Len(goroutines) : GoDone(i)
    \/ StartCloser
    \/ CloseResultChan
    \/ CloseErrorChan
    \/ ReceiveResults
    \/ ReceiveError
    \/ ParallelReturns

\* The Go scheduler runs every goroutine that can take a step: the main
\* goroutine, the validator goroutines and the closing goroutine.
SpecParallel == InitRun /\ [][NextParallel]_vars /\ WF_vars(NextParallel)

\* calls of ResolvePath on the reference strings
InitResolve == Init /\ repo = {}

NextResolve ==
    \E impl \in ResolveImplementations, baseDir \in BaseDirs, path \in ReferencePaths :
        ResolveCall(impl, baseDir, path)

SpecResolve == InitResolve /\ [][NextResolve]_vars

TypeOK ==
    /\ repo \subseteq Ids
    /\ run \in 1..MaxRuns
    /\ phase \in {"build", "checks", "ready", "traverse", "done", "validate", "finished",
                "crashed", "hung", "returned"}
    /\ \A k \in DOMAIN Resources : Resources[k] \in Ids
    /\ visited \subseteq DOMAIN Resources
    /\ orphaned \subseteq Ids

\* ------------------------------------------------- vocabulary of the claims
KeysOf(S) == {GetResourceKey(r) : r \in S}

\* T.ReferencedBy holds an entry for R
HasBackRef(T, R) ==
    \E i \in 1..Len(ReferencedBy[T]) :
        /\ ReferencedBy[T][i].File = Menu[R].File
        /\ ReferencedBy[T][i].Name = Menu[R].Name

\* the resolved references: owner -> target
ResolvedEdges == {e \in Loaded \X Loaded : HasBackRef(e[2], e[1])}

RECURSIVE Closure(_, _)
Closure(S, E) ==
    LET n == S \cup {e[2] : e \in {x \in E : x[1] \in S}}
    IN IF n = S THEN S ELSE Closure(n, E)

SomeKeyShared == \E a, b \in Loaded : a # b /\ GetResourceKey(a) = GetResourceKey(b)

IsFluxDoc(r) == Menu[r].Kind = "Kustomization" /\ HasGroupPrefix(Menu[r].APIVersion, FluxGroup)

IsKustomizeDoc(r) ==
    Menu[r].Kind = "Kustomization" /\ HasGroupPrefix(Menu[r].APIVersion, KustomizeGroup)

\* the path references a document declares, with the base each resolves against
DeclaredPathRefs(r) ==
    LET c == Menu[r].Content
    IN IF IsFluxDoc(r) THEN {[path |-> p, base |-> RepoPath] : p \in Range(c.spec_path)}
       ELSE IF IsKustomizeDoc(r)
       THEN {[path |-> p, base |-> Dir(Menu[r].File)] :
                p \in Range(c.resources) \cup Range(c.patches) \cup Range(c.patchesStrategicMerge)}
       ELSE {}

Built == phase # "build"

C2_OrphanIffUnreachable ==
    phase = "done" =>
        \A r \in Loaded :
            r \in orphaned <=> r \notin Closure(Range(entryPoints), ResolvedEdges)

\* ---------------------------------------------------------------- C3
\* C3: the target of every path or sourceRef reference of a traversed
\* resource is marked and is not an orphan, and a chart reference alone
\* marks nothing.
C3_FollowsPathAndNameEdges ==
    phase = "done" =>
        /\ \A r \in Range(entered) : \A i \in 1..Len(Dependencies[r]) :
              LET dep == Dependencies[r][i]
                  targets == FindTargetResource(dep, r, RepoPath) \ {Nil}
              IN (dep.ReferenceType \in {"path", "sourceRef"} /\ targets # {}) =>
                    \E t \in targets : GetResourceKey(t) \in visited /\ t \notin orphaned
        /\ \A r \in Range(entered) : \A i \in 1..Len(Dependencies[r]) :
              Dependencies[r][i].ReferenceType = "chart" =>
                  FindTargetResource(Dependencies[r][i], r, RepoPath) = {Nil}

\* ---------------------------------------------------------------- C4
NoKeyEnteredTwice ==
    \A i, j \in 1..Len(entered) :
        i # j => GetResourceKey(entered[i]) # GetResourceKey(entered[j])

\* C4: the traversal always ends, also on reference cycles; it enters no key
\* twice, its recursion is never deeper than the number of keys, and the
\* orphans it returns are the resources whose key was not entered.
C4_TraversalTerminates ==
    /\ [](NoKeyEnteredTwice /\ Len(stack) <= Cardinality(DOMAIN Resources))
    /\ [](phase = "done" =>
             orphaned = {Resources[k] : k \in (DOMAIN Resources) \ KeysOf(Range(entered))})
    /\ (phase = "traverse") ~> (phase = "done")

\* A -> B -> A by path references, traversed from {A}
C4_Witness ==
    /\ phase = "done"
    /\ Len(entryPoints) = 1
    /\ \E a, b \in Range(entered) :
          /\ a # b
          /\ entryPoints = <<a>>
          /\ HasBackRef(b, a)
          /\ HasBackRef(a, b)
    /\ orphaned # {}

\* ---------------------------------------------------------------- C5
\* C5: after graph resolution every declared path reference of a resource R
\* whose target file holds exactly one parsed resource T has left an entry
\* for R in T.ReferencedBy.
C5_PathReferenceResolves ==
    Built =>
        \A R \in Loaded : \A d \in DeclaredPathRefs(R) :
            LET fullPath == Join(d.base, d.path)
                parsed == ParseFile(repo, fullPath)
            IN (fullPath \in FilesOf(repo) /\ Len(parsed) = 1) => HasBackRef(parsed[1], R)

\* ---------------------------------------------------------------- C6
IsDirectory(p) == \E f \in FilesOf(repo) : IsPrefix(p, f) /\ p # f

\* the resource-bearing kustomization files directly in directory p
KustomizationFilesIn(p) ==
    {f \in DOMAIN Files : Dir(f) = p /\ IsKustomizationFile(f) /\ Len(Files[f]) > 0}

\* C6: a path reference that resolves to a directory holding a kustomization
\* document has that document's resource as its target, with the back-edge;
\* any other path reference has as target a resource parsed from exactly the
\* resolved path.
C6_DirectoryReference ==
    Built =>
        \A k \in DOMAIN Resources : \A i \in 1..Len(Dependencies[Resources[k]]) :
            LET R == Resources[k]
                ref == Dependencies[R][i]
                fullPath == IF ref.IsRelative THEN Join(Dir(Menu[R].File), ref.Path)
                            ELSE Join(RepoPath, ref.Path)
            IN ref.ReferenceType = "path" =>
                  IF IsDirectory(fullPath) /\ KustomizationFilesIn(fullPath) # {}
                  THEN \E f \in KustomizationFilesIn(fullPath) : HasBackRef(Files[f][1], R)
                  ELSE \A T \in FindTargetResource(ref, R, RepoPath) \ {Nil} :
                          Menu[T].File = fullPath /\ HasBackRef(T, R)

\* ---------------------------------------------------------------- C7
\* the full path the graph resolves a path reference to
GraphFullPath(R, ref) ==
    IF ref.IsRelative THEN Join(Dir(Menu[R].File), ref.Path) ELSE Join(RepoPath, ref.Path)

\* C7: a Flux path is resolved against the repository root and a kustomize
\* path against the directory of the kustomization file, in the edges of the
\* graph and in every path the checks test for existence.
C7_RelativeBase ==
    /\ \A k \in processed : \A i \in 1..Len(Dependencies[Resources[k]]) :
          LET R == Resources[k]
              ref == Dependencies[R][i]
          IN ref.ReferenceType = "path" =>
                GraphFullPath(R, ref) =
                    Join(IF IsFluxDoc(R) THEN RepoPath ELSE Dir(Menu[R].File), ref.Path)
    /\ \A c \in checkedPaths :
          c.fullPath = Join(IF c.check = "flux-kustomization-path"
                            THEN RepoPath
                            ELSE Dir(Menu[c.owner].File), c.ref)

\* ---------------------------------------------------------------- C8
\* C8: while filepath.Walk has files left no Dependencies or ReferencedBy
\* entry exists; and once the graph is built it holds every resource of the
\* file set, and the back-edges of every resource are exactly those its
\* references resolve to against that complete graph, whether the target
\* was loaded before or after the owner.
C8_EdgesOnlyAfterLoad ==
    /\ walk # <<>> => (Dependencies = NoEdges /\ ReferencedBy = NoEdges)
    /\ Built =>
          /\ Loaded = {r \in repo : IsValidResource(r)}
          /\ \A k \in DOMAIN Resources :
                LET R == Resources[k]
                IN /\ Dependencies[R] = ExtractReferences(R)
                   /\ \A i \in 1..Len(Dependencies[R]) :
                         LET targets == FindTargetResource(Dependencies[R][i], R, RepoPath)
                         IN targets # {Nil} =>
                               \E T \in targets :
                                   \E j \in 1..Len(ReferencedBy[T]) :
                                       ReferencedBy[T][j] = BackReference(Dependencies[R][i], R)
          /\ \A T \in Loaded : \A j \in 1..Len(ReferencedBy[T]) :
                \E k \in DOMAIN Resources : \E i \in 1..Len(Dependencies[Resources[k]]) :
                    /\ ReferencedBy[T][j] = BackReference(Dependencies[Resources[k]][i], Resources[k])
                    /\ T \in FindTargetResource(Dependencies[Resources[k]][i], Resources[k], RepoPath)

\* one reference to a file loaded later and one to a file loaded earlier
C8_Witness ==
    /\ Built
    /\ \E R, T \in Loaded : PathLess(Menu[R].File, Menu[T].File) /\ HasBackRef(T, R)
    /\ \E R, T \in Loaded : PathLess(Menu[T].File, Menu[R].File) /\ HasBackRef(T, R)

\* ---------------------------------------------------------------- C9
\* C9: the graph built again from the same file set has the same resolved
\* edges and, for the same entry points, the same orphans.
C9_RebuildIsIdempotent ==
    (run = 2 /\ Built) =>
        /\ EdgeSets = firstRun.edges
        /\ phase = "done" => orphaned = firstRun.orphans

\* ---------------------------------------------------------------- C10
\* C10: the references extracted from a kustomize Kustomization are one per
\* entry of resources, patches[].path and patchesStrategicMerge, all relative
\* to the owner file; those of a Flux Kustomization hold its spec.path
\* relative to the repository root; an unclassified resource has none.
C10_ExtractionByKind ==
    \A k \in processed :
        LET R == Resources[k]
            c == Menu[R].Content
            deps == Dependencies[R]
        IN /\ IsKustomizeDoc(R) =>
                 /\ Len(deps) = Len(c.resources) + Len(c.patches) + Len(c.patchesStrategicMerge)
                 /\ \A i \in 1..Len(deps) : deps[i].IsRelative
                 /\ [i \in 1..Len(deps) |-> deps[i].Path] =
                        c.resources \o c.patches \o c.patchesStrategicMerge
           /\ IsFluxDoc(R) =>
                 \A p \in Range(c.spec_path) :
                     \E i \in 1..Len(deps) :
                         /\ deps[i].ReferenceType = "path"
                         /\ deps[i].Path = p
                         /\ ~deps[i].IsRelative
           /\ (~IsKustomizeDoc(R) /\ ClassifyResource(R) = "kubernetes-resource") => deps = <<>>

\* ------------------------------------------- vocabulary of the pipeline
\* position in the pipeline of the stage with the given name
StagePosition(name) == CHOOSE i \in 1..Len(pipeline) : pipeline[i].Name = name

\* the findings of the list that come from the stage
FindingsOfStage(list, name) == SelectSeq(list, LAMBDA f : f.Stage = name)

\* the Validate calls made for the stage
RanOfStage(name) == SelectSeq(ran, LAMBDA e : e.stage = name)

\* the stage names a validator that is not registered
NamesMissingCheck(stage) == \E i \in 1..Len(stage.Validators) : stage.Validators[i] \notin Registry

PipelineReturned == mode = "pipeline" /\ phase = "finished"

\* ---------------------------------------------------------------- C11
\* C11: the Validate calls are made stage by stage in the declared order,
\* the stages are begun in that order, and in allResults the findings of an
\* earlier stage come before those of a later stage.
C11_StagesInDeclaredOrder ==
    mode = "pipeline" =>
        /\ \A i, j \in 1..Len(ran) :
              i < j => StagePosition(ran[i].stage) <= StagePosition(ran[j].stage)
        /\ \A i, j \in 1..Len(allResults) :
              i < j => StagePosition(allResults[i].Stage) <= StagePosition(allResults[j].Stage)
        /\ \A i \in 1..Len(ran) : StagePosition(ran[i].stage) = Len(stageOutcome) + 1
                                     \/ StagePosition(ran[i].stage) <= Len(stageOutcome)
        /\ Len(stageOutcome) \in {stageIndex - 1, stageIndex}
        /\ inStage => Len(stageOutcome) = stageIndex - 1

\* two stages ran and both left findings in the returned list
C11_Witness ==
    /\ PipelineReturned
    /\ pipelineErr = NoError
    /\ Len(pipeline) = 2
    /\ stageOutcome = <<"ran", "ran">>
    /\ \A i \in 1..2 : FindingsOfStage(results, pipeline[i].Name) # <<>>

\* ---------------------------------------------------------------- C12
\* C12: a required stage that is executed and names an unregistered check
\* ends the pipeline: none of its validators is called, no later stage is
\* begun, and ExecutePipeline returns a non-nil error (which the caller turns
\* into one pipeline-error finding).
C12_RequiredMissingCheckAborts ==
    mode = "pipeline" =>
        \A i \in 1..Len(stageOutcome) :
            (pipeline[i].Required /\ NamesMissingCheck(pipeline[i])
                /\ stageOutcome[i] # "skipped") =>
                /\ stageOutcome[i] = "aborted"
                /\ Len(stageOutcome) = i
                /\ stageIndex = i
                /\ pipelineErr = [stage |-> pipeline[i].Name, cause |-> "validator not found"]
                /\ RanOfStage(pipeline[i].Name) = <<>>
                /\ \A j \in (i + 1)..Len(pipeline) : RanOfStage(pipeline[j].Name) = <<>>
                /\ phase = "finished" =>
                      results = <<Finding("pipeline-error", "error", pipeline[i].Name, "", 1)>>

\* the first stage ran, the second is required and names an unregistered check
C12_Witness ==
    /\ PipelineReturned
    /\ Len(pipeline) = 2
    /\ stageOutcome = <<"ran", "aborted">>
    /\ NamesMissingCheck(pipeline[2])
    /\ pipelineErr # NoError

\* ---------------------------------------------------------------- C13
\* C13: a stage that is not required and fails leaves exactly one finding,
\* of type pipeline-stage-error and severity error; the stage loop goes on
\* to the next stage, and the error ExecutePipeline returns, if any, is not
\* the error of that stage; when no stage aborts every stage is begun.
C13_OptionalStageFailureIsOneFinding ==
    mode = "pipeline" =>
        /\ \A i \in 1..Len(stageOutcome) :
              (~pipeline[i].Required /\ StageError(pipeline[i]) # NoError
                  /\ stageOutcome[i] # "skipped") =>
                  /\ stageOutcome[i] = "failed"
                  /\ FindingsOfStage(allResults, pipeline[i].Name) =
                        <<Finding("pipeline-stage-error", "error", pipeline[i].Name,
                                  pipeline[i].Name, 1)>>
                  /\ stageIndex > i
                  /\ pipelineErr.stage # pipeline[i].Name
        /\ (phase = "finished" /\ pipelineErr = NoError) =>
              /\ Len(stageOutcome) = Len(pipeline)
              /\ results = allResults

\* an optional stage failed and the stage after it ran
C13_Witness ==
    /\ PipelineReturned
    /\ Len(pipeline) = 2
    /\ stageOutcome = <<"failed", "ran">>
    /\ RanOfStage(pipeline[2].Name) # <<>>
    /\ pipelineErr = NoError

\* ---------------------------------------------------------------- C14
\* C14: a validator that returns an error leaves one validator-error finding
\* in its stage and the validators after it are still called, required stage
\* or not; and the only cause for which ExecutePipeline returns an error is
\* a required stage naming an unregistered check.
C14_OnlyMissingRegistrationAborts ==
    mode = "pipeline" =>
        /\ \A i \in 1..Len(stageOutcome) :
              stageOutcome[i] = "ran" =>
                  /\ Len(RanOfStage(pipeline[i].Name)) = Len(pipeline[i].Validators)
                  /\ \A k \in 1..Len(pipeline[i].Validators) :
                        RanOfStage(pipeline[i].Name)[k].kind = "error" =>
                            Len(SelectSeq(FindingsOfStage(allResults, pipeline[i].Name),
                                          LAMBDA f : f.Message = pipeline[i].Validators[k])) = 1
        /\ pipelineErr # NoError =>
              \E i \in 1..Len(pipeline) :
                  /\ pipelineErr.stage = pipeline[i].Name
                  /\ pipeline[i].Required
                  /\ NamesMissingCheck(pipeline[i])

\* ---------------------------------------------------------------- C15
\* C15: when the only validator of a stage returns an error, a stage that is
\* not required leaves exactly one error finding and the next stage is
\* begun, and a required stage aborts the pipeline.
C15_FailSoft ==
    mode = "pipeline" =>
        \A i \in 1..Len(stageOutcome) :
            LET calls == RanOfStage(pipeline[i].Name)
            IN (Len(pipeline[i].Validators) = 1 /\ Len(calls) = 1 /\ calls[1].kind = "error") =>
                  IF pipeline[i].Required
                  THEN /\ pipelineErr # NoError
                       /\ Len(stageOutcome) = i
                  ELSE /\ Len(SelectSeq(FindingsOfStage(allResults, pipeline[i].Name),
                                        LAMBDA f : f.Severity = "error")) = 1
                       /\ Len(FindingsOfStage(allResults, pipeline[i].Name)) = 1
                       /\ stageIndex > i
                       /\ pipelineErr.stage # pipeline[i].Name

\* ---------------------------------------------------------------- C16
\* C16: a stage whose condition is not a well-formed condition is never
\* skipped.
C16_MalformedConditionRunsStage ==
    mode = "pipeline" =>
        \A i \in 1..Len(stageOutcome) :
            (pipeline[i].Condition # <<>> /\ pipeline[i].Condition \notin WellFormedConditions)
                => stageOutcome[i] # "skipped"

\* ---------------------------------------------------------------- C17
\* C17: a stage with the condition "<subject> <op> N" is executed exactly if
\* the number of resources (of files) of the graph is greater (less) than N.
C17_ConditionComparesCount ==
    mode = "pipeline" =>
        \A i \in 1..Len(stageOutcome) : \A s \in Subjects, o \in Operators, n \in Thresholds :
            pipeline[i].Condition = Cond(s, o, Decimal(n)) =>
                LET count == IF s = "resource_count" THEN Cardinality(DOMAIN Resources)
                             ELSE Cardinality(DOMAIN Files)
                IN (stageOutcome[i] # "skipped") <=> (IF o = ">" THEN count > n ELSE count < n)

\* ------------------------------------- vocabulary of the top-level runs
\* the findings of the list that name the validator
FindingsOfValidator(list, name) == SelectSeq(list, LAMBDA f : f.Message = name)

\* the Validate calls made on the validator
RanOfValidator(name) == SelectSeq(ran, LAMBDA e : e.validator = name)

RECURSIVE SumLen(_)
SumLen(seqs) == IF seqs = <<>> THEN 0 ELSE Len(Head(seqs)) + SumLen(Tail(seqs))

\* ---------------------------------------------------------------- C18
\* C18: when runValidatorsParallel has returned, every validator goroutine
\* has ended, both channels are closed and empty, and v.results holds for
\* every validator exactly what its Validate call returned: its findings in
\* their order, or one validator-error finding; nothing else is in the list.
C18_ParallelCollectsEverything ==
    (mode = "parallel" /\ phase = "finished") =>
        /\ Len(goroutines) = Len(ValidatorList)
        /\ \A i \in 1..Len(goroutines) : goroutines[i].pc = "done"
        /\ wg = 0
        /\ resultChan.buf = <<>> /\ errorChan.buf = <<>>
        /\ \A i \in 1..Len(ValidatorList) :
              LET name == ValidatorList[i]
                  calls == RanOfValidator(name)
              IN /\ Len(calls) = 1
                 /\ FindingsOfValidator(results, name) =
                       Returned(name, [kind |-> calls[1].kind, n |-> calls[1].n,
                                       severity |-> calls[1].severity])
        /\ Len(results) =
              SumLen([i \in 1..Len(ValidatorList) |->
                         FindingsOfValidator(results, ValidatorList[i])])

\* a validator that started later delivered before one that started earlier
C18_Witness ==
    /\ mode = "parallel"
    /\ phase = "finished"
    /\ Len(results) >= 2
    /\ results[1].Message = ValidatorList[2]
    /\ \E k \in 2..Len(results) : results[k].Message = ValidatorList[1]
    /\ \E k \in 1..Len(results) : results[k].Type = "validator-error"

\* ---------------------------------------------------------------- C19
\* C19: in a sequential or parallel top-level run a validator that panics or
\* returns an error leaves exactly one validator-error finding naming it,
\* and every validator of the list is still called and the run returns.
C19_CheckFailureIsOneFinding ==
    mode \in {"sequential", "parallel"} =>
        /\ phase # "crashed"
        /\ phase = "finished" =>
              \A i \in 1..Len(ValidatorList) :
                  LET name == ValidatorList[i]
                      calls == RanOfValidator(name)
                  IN /\ Len(calls) = 1
                     /\ calls[1].kind \in {"error", "panic"} =>
                           FindingsOfValidator(results, name) = <<ValidatorError(name)>>

FindingsOfCall(e) ==
    IF e.kind = "error"
    THEN <<Finding("validator-error", "error", e.validator, e.stage, 1)>>
    ELSE ValidatorFindings(e.validator, e.stage, e.n, e.severity)

\* every finding a check executed during the run has produced
CollectedFindings == UNION {Range(FindingsOfCall(ran[i])) : i \in 1..Len(ran)}

ValidateReturned == phase = "returned"

\* ---------------------------------------------------------------- C21
\* C21: a run ends early (Validate returns an error) only when the repository
\* path is missing or a required pipeline stage has failed; in those two
\* cases the result is non-zero whatever the fail-on flags are and no finding
\* is reported; in every other case the run completes and reports every
\* finding that was collected.
C21_EarlyEndOnlyForMissingPathOrRequiredStage ==
    ValidateReturned =>
        LET missingPath == returned.err = "repository path does not exist"
            stageFailed == pipelineErr # NoError
        IN /\ returned.err # "" => (missingPath \/ stageFailed)
           /\ (missingPath \/ stageFailed) =>
                 (returned.code # 0 /\ returned.printed = <<>>)
           /\ ~(missingPath \/ stageFailed) =>
                 (returned.err = "" /\ CollectedFindings \subseteq Range(returned.printed))

\* ---------------------------------------------------------------- C22
\* C22: when Validate has run the checks it returns 1 if some finding has
\* severity error and fail-on-errors is set; otherwise 2 if some finding has
\* severity warning and fail-on-warnings is set; otherwise 3 if some finding
\* has severity info and fail-on-info is set; otherwise 0.  So 0 is returned
\* exactly when there is no finding or no severity that was found is
\* configured to fail.
C22_ExitCodeFromSeverities ==
    (ValidateReturned /\ returned.err = "") =>
        LET found(sev) == \E f \in Range(results) : f.Severity = sev
            e == found("error") /\ returned.cfg.FailOnErrors
            w == found("warning") /\ returned.cfg.FailOnWarnings
            i == found("info") /\ returned.cfg.FailOnInfo
        IN /\ e => returned.code = 1
           /\ (~e /\ w) => returned.code = 2
           /\ (~e /\ ~w /\ i) => returned.code = 3
           /\ (~e /\ ~w /\ ~i) => returned.code = 0
           /\ returned.code = 0 <=>
                 (results = <<>> \/
                  \A f \in Range(results) :
                      /\ f.Severity = "error" => ~returned.cfg.FailOnErrors
                      /\ f.Severity = "warning" => ~returned.cfg.FailOnWarnings
                      /\ f.Severity = "info" => ~returned.cfg.FailOnInfo)

\* a run that found an error and a warning, fails on warnings only, returns 2
C22_Witness ==
    /\ ValidateReturned
    /\ returned.code = 2
    /\ \E f \in Range(results) : f.Severity = "error"
    /\ \E f \in Range(results) : f.Severity = "warning"
    /\ ~returned.cfg.FailOnErrors

\* ---------------------------------------------------------------- C23
\* C23: every implementation of resolve(basePath, ref) follows the ordered
\* rules: a ref beginning with http:// or https:// has shouldResolve = false;
\* a ref beginning with the path separator is already absolute and is itself
\* the result, not re-based under basePath; any other ref has at most one
\* leading "./" stripped and is joined to basePath.
C23_ResolveRules ==
    \A c \in resolved :
        IF IsRemoteURL(c.path) THEN ~c.result.shouldResolve
        ELSE IF HasSeparatorPrefix(c.path)
        THEN c.result.shouldResolve /\ c.result.fullPath = Clean(c.path)
        ELSE /\ c.result.shouldResolve
             /\ c.result.fullPath = Clean(c.baseDir \o TrimDotSlash(c.path))

\* ---------------------------------------------------------------- C24
\* the resources that hold the back-reference of reference dep of resource r
HoldersOf(dep, r) == {t \in Ids : BackReference(dep, r) \in Range(ReferencedBy[t])}

\* C24: a name-lookup reference with name n resolves to the resource stored
\* under the key n whenever there is one; only when there is none does it
\* resolve to a resource whose key ends in "/" + n; when there is neither it
\* stays unresolved.
C24_ExactKeyBeforeSuffix ==
    \A k \in processed :
        LET r == Resources[k]
        IN \A i \in 1..Len(Dependencies[r]) :
              LET dep == Dependencies[r][i]
                  n == dep.Path
                  suffixed == {x \in DOMAIN Resources : HasNameSuffix(x, n)}
              IN dep.ReferenceType = "sourceRef" =>
                    IF n \in DOMAIN Resources THEN HoldersOf(dep, r) = {Resources[n]}
                    ELSE IF suffixed # {}
                    THEN \E x \in suffixed : HoldersOf(dep, r) = {Resources[x]}
                    ELSE HoldersOf(dep, r) = {}

\* Kustomization a names the source s; s and n1/s are both loaded and the
\* reference went to s
C24_Witness ==
    /\ repo = {1, 5, 7}
    /\ <<"a">> \in processed
    /\ HoldersOf(Dependencies[1][2], 1) = {7}
    /\ <<"n1", "s">> \in DOMAIN Resources

\* ---------------------------------------------------------------- C30
\* the resources an index of the graph holds
IndexMembers(index) == UNION {Range(index[k]) : k \in DOMAIN index}

\* the number of entries of an index
RECURSIVE IndexSize(_)
IndexSize(index) ==
    IF DOMAIN index = {} THEN 0
    ELSE LET k == CHOOSE x \in DOMAIN index : TRUE
         IN Len(index[k]) + IndexSize([x \in (DOMAIN index) \ {k} |-> index[x]])

\* r is the value stored under its key in Resources
StoredUnderItsKey(r) ==
    GetResourceKey(r) \in DOMAIN Resources /\ Resources[GetResourceKey(r)] = r

\* C30: after any sequence of AddResource calls a resource is in Files,
\* ByKind, ByAPIVersion and ByType if and only if it is the value stored under
\* its key in Resources, and each index holds len(Resources) resources.
C30_IndexesDescribeSameSet ==
    LET Agrees(index) ==
            /\ \A r \in Ids : r \in IndexMembers(index) <=> StoredUnderItsKey(r)
            /\ IndexSize(index) = Cardinality(DOMAIN Resources)
    IN Agrees(Files) /\ Agrees(ByKind) /\ Agrees(ByAPIVersion) /\ Agrees(ByType)

\* ---------------------------------------------------------------- C25
\* the position of a check in the validator list of Validate
ValidatorPosition(name) == CHOOSE i \in 1..Len(ValidatorList) : ValidatorList[i] = name

\* C25: in sequential non-pipeline mode the result list keeps the order of
\* the checks: every finding of the N-th check of the validator list comes
\* before every finding of the (N+1)-th check.
C25_SequentialResultsInCheckOrder ==
    mode = "sequential" =>
        \A i, j \in 1..Len(results) :
            ValidatorPosition(results[i].Message) < ValidatorPosition(results[j].Message)
                => i < j

\* a sequential run in which the first check returned an error and the
\* second a finding
C25_Witness ==
    /\ mode = "sequential"
    /\ phase = "finished"
    /\ Len(results) = 2
    /\ results[1].Type = "validator-error" /\ results[1].Message = ValidatorList[1]
    /\ results[2].Message = ValidatorList[2]

\* ---------------------------------------------------------------- C27
\* C27: in pipeline mode no finding is lost: every finding produced by a
\* check that was executed, in any stage, is in the final result list of
\* the run, also when a later required stage fails.
C27_PipelineLosesNoFinding ==
    (mode = "pipeline" /\ phase \in {"finished", "returned"}) =>
        CollectedFindings \subseteq Range(results)

\* ---------------------------------------------------------------- C28
\* C28: if any check name listed in an executed stage is not registered, none
\* of the stage's checks is run, and the stage contributes an abort when it
\* is required and exactly one pipeline-stage-error finding when it is not,
\* never findings of its registered checks.
C28_StageAllOrNothing ==
    mode = "pipeline" =>
        /\ inStage => ~NamesMissingCheck(pipeline[stageIndex])
        /\ \A i \in 1..Len(stageOutcome) :
              LET stage == pipeline[i]
              IN (NamesMissingCheck(stage) /\ stageOutcome[i] # "skipped") =>
                    /\ RanOfStage(stage.Name) = <<>>
                    /\ stage.Required =>
                          /\ stageOutcome[i] = "aborted"
                          /\ pipelineErr.stage = stage.Name
                          /\ FindingsOfStage(allResults, stage.Name) = <<>>
                    /\ ~stage.Required =>
                          /\ stageOutcome[i] = "failed"
                          /\ Len(FindingsOfStage(allResults, stage.Name)) = 1
                          /\ FindingsOfStage(allResults, stage.Name)[1].Type =
                                "pipeline-stage-error"

\* an executed optional stage lists a registered check before the
\* unregistered one; the registered check was not run
C28_Witness ==
    /\ PipelineReturned
    /\ \E i \in 1..Len(stageOutcome) :
          /\ stageOutcome[i] = "failed"
          /\ Len(pipeline[i].Validators) = 2
          /\ pipeline[i].Validators[1] \in Registry
          /\ pipeline[i].Validators[2] \notin Registry
          /\ RanOfStage(pipeline[i].Name) = <<>>
    /\ ran # <<>>

\* ---------------------------------------------------------------- C26
\* C26: in a stage whose parallel flag is false the checks run one at a time
\* in declared order; in a stage whose flag is true they run concurrently,
\* so that a check that has not returned does not keep the stage's other
\* checks from being called; either way a stage that has run has handed
\* every finding of its checks to the pipeline.
C26_StageFlagSelectsScheduling ==
    mode = "pipeline" =>
        /\ \A i \in 1..Len(pipeline) :
              LET stage == pipeline[i]
                  calls == RanOfStage(stage.Name)
              IN /\ ~stage.Parallel =>
                       \A k \in 1..Len(calls) : calls[k].validator = stage.Validators[k]
                 /\ (i <= Len(stageOutcome) /\ stageOutcome[i] = "ran") =>
                       /\ Len(calls) = Len(stage.Validators)
                       /\ \A k \in 1..Len(calls) :
                             Range(FindingsOfCall(calls[k])) \subseteq Range(allResults)
        /\ (inStage /\ pipeline[stageIndex].Parallel /\ pending # <<>> /\ phase # "crashed") =>
              ENABLED executeValidatorsSequential

\* ---------------------------------------------------------------- C29
\* a validator goroutine whose Validate call has not returned and never will
CheckNeverReturns ==
    phase = "crashed" \/ \E i \in 1..Len(goroutines) : goroutines[i].pc = "hung"

\* C29: runValidatorsParallel cannot deadlock. A validator goroutine that
\* is still to send its one message finds room in both channels, whose
\* buffers hold as many messages as there are checks; the result channel is
\* closed only by the closing goroutine after every validator goroutine is
\* done, the error channel only after the result channel, neither twice;
\* and for any number of checks, zero included, the collecting loop ends
\* and the function returns unless some check never returns.
C29_ParallelRunEnds ==
    /\ [](mode = "parallel" =>
            /\ resultChan.cap = Len(pending) + Len(goroutines)
            /\ errorChan.cap = resultChan.cap
            /\ \A i \in 1..Len(goroutines) :
                  goroutines[i].pc = "validate" =>
                      /\ Len(resultChan.buf) < resultChan.cap
                      /\ Len(errorChan.buf) < errorChan.cap
            /\ resultChan.closed <=> closer \in {"closeError", "done"}
            /\ errorChan.closed <=> closer = "done"
            /\ resultChan.closed =>
                  /\ pending = <<>>
                  /\ \A i \in 1..Len(goroutines) : goroutines[i].pc = "done"
            /\ phase = "finished" => ~CheckNeverReturns /\ errorChan.closed)
    /\ (mode = "parallel") ~> (phase = "finished" \/ CheckNeverReturns)

\* a run on the full list has returned with both buffers having been needed:
\* one check sent its findings, the other its error
C29_Witness ==
    /\ mode = "parallel"
    /\ phase = "finished"
    /\ Len(goroutines) = MaxValidators
    /\ \E i, j \in 1..Len(ran) : ran[i].kind = "ok" /\ ran[j].kind = "error"

====
